---- MODULE Spec2Model ----
(***************************************************************************)
(* Model of fb_ads_library_api_cli.py: the two argparse type validators    *)
(* (validate_country_param, validate_fields_param), parser.parse_args()    *)
(* and main().                                                             *)
(*                                                                         *)
(* A Python str is a sequence of one-character strings, so that split,     *)
(* strip and join are computed and not assumed.  An optional value         *)
(* (argparse's default None) is <<>> when absent and <<v>> when given.     *)
(***************************************************************************)
EXTENDS Integers, Sequences, TLC

VARIABLES pc, argv, env, opts, out, vin, vres

vars == <<pc, argv, env, opts, out, vin, vres>>

---------------------------------------------------------------------------
(* Bounds *)

\* longest validator input, in characters
MaxLen == 5
\* largest --batch-size given on the command line (smallest is -1)
MaxBatchSize == 1
\* largest --retry-limit given on the command line (smallest is 0)
MaxRetryLimit == 1
\* the traversal collaborator fails on the traversal of this number, or on none
MaxFailAt == 2

Chars == {"a", "A", "b", "z", " ", ","}

RECURSIVE StringsOfLen(_)
StringsOfLen(n) ==
  IF n = 0 THEN {<<>>}
  ELSE {Append(s, c) : s \in StringsOfLen(n - 1), c \in Chars}

Strings == UNION {StringsOfLen(n) : n \in 0..MaxLen}

None == <<>>
Some(v) == <<v>>

---------------------------------------------------------------------------
(* Python built-ins the source uses *)

\* str.split(","): the pieces between commas; "" splits into [""]
RECURSIVE Split(_)
Split(s) ==
  IF \A i \in 1..Len(s) : s[i] # ","
  THEN <<s>>
  ELSE LET i == CHOOSE k \in 1..Len(s) :
                  s[k] = "," /\ \A j \in 1..(k - 1) : s[j] # ","
       IN <<SubSeq(s, 1, i - 1)>> \o Split(SubSeq(s, i + 1, Len(s)))

\* str.strip(): leading and trailing whitespace removed
RECURSIVE Strip(_)
Strip(s) ==
  IF s = <<>> THEN s
  ELSE IF Head(s) = " " THEN Strip(Tail(s))
  ELSE IF s[Len(s)] = " " THEN Strip(SubSeq(s, 1, Len(s) - 1))
  ELSE s

\* ",".join(parts)
RECURSIVE Join(_)
Join(parts) ==
  IF parts = <<>> THEN <<>>
  ELSE IF Len(parts) = 1 THEN parts[1]
  ELSE parts[1] \o <<",">> \o Join(Tail(parts))

\* list(filter(pred, xs)) is SelectSeq(xs, pred); list(map(f, xs)) is the
\* sequence [i \in 1..Len(xs) |-> f(xs[i])]
StripAll(xs) == [i \in 1..Len(xs) |-> Strip(xs[i])]

\* the keys of a dict built from (key, value) pairs in this order: a key
\* given again keeps the place of its first insertion
RECURSIVE DictKeys(_)
DictKeys(keys) ==
  IF keys = <<>> THEN <<>>
  ELSE LET init == DictKeys(SubSeq(keys, 1, Len(keys) - 1))
           last == keys[Len(keys)]
       IN IF \E i \in 1..Len(init) : init[i] = last THEN init
          ELSE Append(init, last)

---------------------------------------------------------------------------
(* Python values and outcomes of a call *)

PyStr(s) == [type |-> "str", s |-> s]
PyFalse == [type |-> "bool", s |-> <<>>]

Return(v) == [kind |-> "return", value |-> v, msg |-> "", text |-> <<>>]
\* argparse.ArgumentTypeError(msg % text)
Raise(msg, text) == [kind |-> "raise", value |-> PyFalse, msg |-> msg, text |-> text]
NotCalled == [kind |-> "none", value |-> PyFalse, msg |-> "", text |-> <<>>]

---------------------------------------------------------------------------
(* fb_ads_library_api_utils and fb_ads_library_api_operators: imported at  *)
(* lines 11-13, their code is not part of the source at hand               *)

\* the closed country reference table: names and codes to normalized codes
CountryTable ==
  (<<"a">> :> <<"A">>) @@ (<<"A">> :> <<"A">>) @@ (<<"b">> :> <<"B">>)

\* the normalized code of x, or None: a plain lookup of the string given
get_country_code(x) ==
  IF x \in DOMAIN CountryTable THEN Some(CountryTable[x]) ELSE None

\* the closed field-name reference set
ValidFields == {<<"a">>, <<"b">>}

is_valid_fields(x) == x \in ValidFields

\* the names of the operator registry
get_operators == {"save_to_csv", "count"}

---------------------------------------------------------------------------
(* The validators, lines 68-103 *)

\* the codes of a list of resolved lookups, and the keys of (key, value) pairs
Codes(found) == [i \in 1..Len(found) |-> found[i][1]]
Firsts(pairs) == [i \in 1..Len(pairs) |-> pairs[i][1]]

\* a plausible slip: the error names the first offending token only
validate_country_param_first_only(country_input) ==
  IF country_input = <<>> THEN Return(PyStr(<<>>))
  ELSE
    LET country_list ==
          SelectSeq(Split(country_input), LAMBDA x : Strip(x) # <<>>)
        valid_country_codes ==
          [i \in 1..Len(country_list) |-> get_country_code(country_list[i])]
        bad == SelectSeq(country_list, LAMBDA x : get_country_code(x) = None)
    IN IF country_list = <<>> THEN Raise("Country cannot be empty", <<>>)
       ELSE IF bad # <<>>
       THEN Raise("Invalid/unsupported country code: %s", bad[1])
       ELSE Return(PyStr(Join(Codes(valid_country_codes))))

validate_country_param(country_input) ==
  IF country_input = <<>> THEN Return(PyStr(<<>>))
  ELSE
    LET \* line 71: the tokens are filtered on x.strip() but kept as split
        country_list ==
          SelectSeq(Split(country_input), LAMBDA x : Strip(x) # <<>>)
        valid_country_codes ==
          [i \in 1..Len(country_list) |-> get_country_code(country_list[i])]
        zipped == [i \in 1..Len(country_list) |->
                     <<country_list[i], valid_country_codes[i]>>]
        \* lines 75-79: a dict keyed by token, of the pairs whose value is None
        invalid_inputs ==
          DictKeys(Firsts(SelectSeq(zipped, LAMBDA kv : kv[2] = None)))
    IN IF country_list = <<>> THEN Raise("Country cannot be empty", <<>>)
       ELSE IF invalid_inputs # <<>>
       THEN Raise("Invalid/unsupported country code: %s", Join(invalid_inputs))
       ELSE Return(PyStr(Join(Codes(valid_country_codes))))

validate_fields_param(fields_input) ==
  IF fields_input = <<>> THEN Return(PyFalse)
  ELSE
    LET fields_list ==
          SelectSeq(StripAll(Split(fields_input)), LAMBDA x : x # <<>>)
        invalid_fields == SelectSeq(fields_list, LAMBDA x : ~is_valid_fields(x))
    IN IF fields_list = <<>> THEN Raise("Fields cannot be empty", <<>>)
       ELSE IF invalid_fields = <<>> THEN Return(PyStr(Join(fields_list)))
       ELSE Raise("Unsupported fields: %s", Join(invalid_fields))

---------------------------------------------------------------------------
(* The validators on their own: every input of at most MaxLen characters *)

NoArgv == [fields |-> <<>>, country |-> <<>>, search_terms |-> None,
           search_page_ids |-> None, ad_active_status |-> None,
           after_date |-> None, batch_size |-> None, retry_limit |-> None,
           verbose |-> FALSE, action |-> "", args |-> <<>>]
NoEnv == [failAt |-> 0]
NoOpts == [parsed |-> FALSE]
NoOut == [status |-> -1, error |-> "", printed |-> <<>>,
          traversals |-> <<>>, calls |-> <<>>]

InitValidators ==
  /\ pc = "validators"
  /\ vin \in Strings
  /\ vres = [country |-> NotCalled, fields |-> NotCalled]
  /\ argv = NoArgv
  /\ env = NoEnv
  /\ opts = NoOpts
  /\ out = NoOut

CallValidateCountry ==
  /\ pc = "validators"
  /\ vres.country = NotCalled
  /\ vres' = [vres EXCEPT !.country = validate_country_param(vin)]
  /\ UNCHANGED <<pc, argv, env, opts, out, vin>>

CallValidateFields ==
  /\ pc = "validators"
  /\ vres.fields = NotCalled
  /\ vres' = [vres EXCEPT !.fields = validate_fields_param(vin)]
  /\ UNCHANGED <<pc, argv, env, opts, out, vin>>

NextValidators == CallValidateCountry \/ CallValidateFields

SpecValidators == InitValidators /\ [][NextValidators]_vars

---------------------------------------------------------------------------
(* The command line, and the traversal collaborator's behaviour *)

SearchTermsArgs ==
  {None, Some(<<>>), Some(<<"a">>), Some(<<"a", ",", " ", "b">>),
   Some(<<"a", ",", "a">>)}

Argvs ==
  [fields : {<<"a">>, <<"z">>, <<>>},
   country : {<<"a">>, <<"z">>},
   search_terms : SearchTermsArgs,
   search_page_ids : {None, Some(""), Some("123")},
   ad_active_status : {None, Some("ALL")},
   after_date : {None, Some("2020-01-01")},
   batch_size : {None} \cup {Some(n) : n \in -1..MaxBatchSize},
   retry_limit : {None} \cup {Some(n) : n \in 0..MaxRetryLimit},
   verbose : {FALSE},
   action : {"save_to_csv", "count", "bogus"},
   args : {<<"out.csv">>}]

Envs == [failAt : 0..MaxFailAt]

Init ==
  /\ pc = "start"
  /\ argv \in Argvs
  /\ env \in Envs
  /\ opts = NoOpts
  /\ out = NoOut
  /\ vin = <<>>
  /\ vres = [country |-> NotCalled, fields |-> NotCalled]

---------------------------------------------------------------------------
(* parser.parse_args(), line 108, with the parser of lines 16-65 *)

\* the Namespace: one attribute per add_argument, named by its dest
Namespace(a, f, c) ==
  [access_token |-> "T", fields |-> f, search_terms |-> a.search_terms,
   country |-> c, search_page_ids |-> a.search_page_ids,
   ad_active_status |-> a.ad_active_status, after_date |-> a.after_date,
   batch_size |-> a.batch_size, retry_limit |-> a.retry_limit,
   verbose |-> a.verbose, action |-> a.action, args |-> a.args]

\* an ArgumentTypeError of a type= callback ends the process: parser.error
\* prints the message and exits with status 2
parse_args ==
  /\ pc = "start"
  /\ LET f == validate_fields_param(argv.fields)
         c == validate_country_param(argv.country)
     IN /\ vres' = [country |-> c, fields |-> f]
        /\ IF f.kind = "raise" \/ c.kind = "raise"
           THEN /\ pc' = "exited"
                /\ \E r \in {x \in {f, c} : x.kind = "raise"} :
                     out' = [out EXCEPT !.status = 2, !.error = "ArgumentTypeError",
                                        !.printed = <<r.msg>>]
                /\ opts' = opts
           ELSE /\ pc' = "parsed"
                /\ opts' = Namespace(argv, f.value, c.value)
                /\ out' = out
  /\ UNCHANGED <<argv, env, vin>>

---------------------------------------------------------------------------
(* main(), lines 106-151 *)

\* getattr on the Namespace: an attribute it does not hold is an AttributeError
HasAttr(ns, name) == name \in DOMAIN ns

\* truth value of an option's value: None, "" and 0 are false
TruthyText(v) == v # None /\ v[1] # <<>>
TruthyStr(v) == v # None /\ v[1] # ""
TruthyInt(v) == v # None /\ v[1] # 0

\* FbAdsLibraryTraversal(token, fields, term, country): the attributes the
\* constructor does not take are at the collaborator's defaults (None here)
FbAdsLibraryTraversal(access_token, fields, search_term, country) ==
  [access_token |-> access_token, fields |-> fields,
   search_term |-> search_term, country |-> country,
   search_page_ids |-> None, ad_active_status |-> None,
   page_limit |-> None, retry_limit |-> None, after_date |-> None]

\* lines 123-132: each override is assigned when its option is truthy
SetOverrides(api, o) ==
  [api EXCEPT
     !.search_page_ids = IF TruthyStr(o.search_page_ids)
                         THEN o.search_page_ids ELSE @,
     !.ad_active_status = IF TruthyStr(o.ad_active_status)
                          THEN o.ad_active_status ELSE @,
     !.page_limit = IF TruthyInt(o.batch_size) THEN o.batch_size ELSE @,
     !.retry_limit = IF TruthyInt(o.retry_limit) THEN o.retry_limit ELSE @,
     !.after_date = IF TruthyStr(o.after_date) THEN o.after_date ELSE @]

\* api.generate_ad_archives() of the k-th traversal of the run: the batches it
\* yields, and whether it then raises
generate_ad_archives(k, e) ==
  LET all == IF k % 2 = 1 THEN << <<[a |-> 10 * k + 1]>> >>
             ELSE << <<[a |-> 10 * k + 1], [a |-> 10 * k + 2]>>, <<>>,
                     <<[a |-> 10 * k + 1]>> >>
  IN IF e.failAt = k THEN [batches |-> SubSeq(all, 1, 1), raises |-> TRUE]
     ELSE [batches |-> all, raises |-> FALSE]

\* lines 135-138: every ad of every batch, tagged and appended
RECURSIVE Flatten(_)
Flatten(batches) ==
  IF batches = <<>> THEN <<>> ELSE Head(batches) \o Flatten(Tail(batches))

Tag(ads, search_term) ==
  [i \in 1..Len(ads) |-> [a |-> ads[i].a, search_term |-> search_term]]

\* lines 118-138 from the k-th term on: the traversals constructed, the
\* results appended, and whether a traversal raised
RECURSIVE RunTerms(_, _, _, _, _)
RunTerms(search_terms, k, o, e, acc) ==
  IF k > Len(search_terms) THEN acc
  ELSE
    LET search_term == Strip(search_terms[k])
        api == SetOverrides(
                 FbAdsLibraryTraversal(o.access_token, acc.fields, search_term,
                                       o.country), o)
        gen == generate_ad_archives(k, e)
        next == [acc EXCEPT
                   !.traversals = Append(@, api),
                   !.all_results = @ \o Tag(Flatten(gen.batches), search_term)]
    IN IF gen.raises THEN [next EXCEPT !.raised = TRUE]
       ELSE RunTerms(search_terms, k + 1, o, e, next)

\* lines 110-151 as one run: the process's exit status, what it printed,
\* the traversals it constructed and the action calls it made
MainRun(o, e) ==
  IF ~HasAttr(o, "search_term")
  THEN \* line 110: opts.search_term
       [NoOut EXCEPT !.status = 1, !.error = "AttributeError"]
  ELSE IF ~TruthyText(o.search_term) /\ ~TruthyStr(o.search_page_ids)
  THEN [NoOut EXCEPT
          !.status = 1,
          !.printed = <<"At least one must be set: --search-term, --search-page-ids">>]
  ELSE IF o.fields.type # "str"
  THEN \* line 115: "search_term," + False
       [NoOut EXCEPT !.status = 1, !.error = "TypeError"]
  ELSE
    LET search_terms == IF TruthyText(o.search_terms)
                        THEN Split(o.search_terms[1]) ELSE << <<>> >>
        fields == <<"search_term", ",">> \o o.fields.s
        run == RunTerms(search_terms, 1, o, e,
                        [fields |-> fields, traversals |-> <<>>,
                         all_results |-> <<>>, raised |-> FALSE])
    IN IF run.raised
       THEN [NoOut EXCEPT !.status = 1, !.error = "TraversalFailure",
                          !.traversals = run.traversals]
       ELSE IF o.action \in get_operators
       THEN [NoOut EXCEPT
               !.status = 0,
               !.traversals = run.traversals,
               !.calls = <<[name |-> o.action, records |-> run.all_results,
                            args |-> o.args,
                            fields |-> IF o.action = "save_to_csv"
                                       THEN Some(fields) ELSE None,
                            is_verbose |-> o.verbose]>>]
       ELSE [NoOut EXCEPT
               !.status = 1,
               !.traversals = run.traversals,
               !.printed = <<"Invalid 'action' value: %s">>]

main ==
  /\ pc = "parsed"
  /\ out' = MainRun(opts, env)
  /\ pc' = "exited"
  /\ UNCHANGED <<argv, env, opts, vin, vres>>

Next == parse_args \/ main

Spec == Init /\ [][Next]_vars

---------------------------------------------------------------------------
(* Vocabulary of the properties *)

\* the tokens as each validator takes them from its input
CountryTokens(s) == SelectSeq(Split(s), LAMBDA x : Strip(x) # <<>>)
TrimmedTokens(s) == SelectSeq(StripAll(Split(s)), LAMBDA x : x # <<>>)

\* the tokens that fail the vocabulary check, every occurrence, in input order
CountryOffending(s) ==
  SelectSeq(CountryTokens(s), LAMBDA x : get_country_code(x) = None)
FieldsOffending(s) ==
  SelectSeq(TrimmedTokens(s), LAMBDA x : ~is_valid_fields(x))

\* listed is a subsequence of offending: nothing else, and in that order
RECURSIVE IsSubsequence(_, _)
IsSubsequence(listed, offending) ==
  IF listed = <<>> THEN TRUE
  ELSE IF offending = <<>> THEN FALSE
  ELSE IF Head(listed) = Head(offending)
       THEN IsSubsequence(Tail(listed), Tail(offending))
       ELSE IsSubsequence(listed, Tail(offending))

\* every offending token is among the listed ones, and the listed ones are
\* offending tokens in their input order
ListsAllInOrder(listed, offending) ==
  /\ \A i \in 1..Len(offending) : \E j \in 1..Len(listed) : listed[j] = offending[i]
  /\ IsSubsequence(listed, offending)

InvalidCountryMsg == "Invalid/unsupported country code: %s"
InvalidFieldsMsg == "Unsupported fields: %s"
MissingSelectorMsg == "At least one must be set: --search-term, --search-page-ids"
UnknownActionMsg == "Invalid 'action' value: %s"

\* main() has run to its end, on arguments that parsed to a usable Namespace
MainDone == pc = "exited" /\ HasAttr(opts, "action") /\ opts.fields.type = "str"

\* a query selector was given on the command line
SelectorGiven == TruthyText(argv.search_terms) \/ TruthyStr(argv.search_page_ids)

\* the search terms of the command line, as submitted
SubmittedTerms ==
  IF TruthyText(argv.search_terms) THEN Split(argv.search_terms[1]) ELSE << <<>> >>

\* the records of the first k terms' traversals, each tagged with its trimmed
\* term: term order, then batch order, then order within the batch
RECURSIVE ExpectedAggregate(_)
ExpectedAggregate(k) ==
  IF k = 0 THEN <<>>
  ELSE ExpectedAggregate(k - 1) \o
       Tag(Flatten(generate_ad_archives(k, env).batches), Strip(SubmittedTerms[k]))

---------------------------------------------------------------------------
(* Properties of the validators, under SpecValidators *)

\* C5: when the input holds a token that fails the vocabulary check, either
\* validator raises its invalid-token error, and the error lists every
\* offending token of the input, not only the first, in input order.
C5_ListsEveryOffendingToken ==
  /\ (vres.country # NotCalled /\ CountryOffending(vin) # <<>>) =>
       /\ vres.country.kind = "raise"
       /\ vres.country.msg = InvalidCountryMsg
       /\ ListsAllInOrder(Split(vres.country.text), CountryOffending(vin))
  /\ (vres.fields # NotCalled /\ FieldsOffending(vin) # <<>>) =>
       /\ vres.fields.kind = "raise"
       /\ vres.fields.msg = InvalidFieldsMsg
       /\ ListsAllInOrder(Split(vres.fields.text), FieldsOffending(vin))

\* both validators have rejected an input with several offending tokens and
\* have listed more than one
C5_Witness ==
  /\ vres.country.kind = "raise"
  /\ vres.fields.kind = "raise"
  /\ Len(Split(vres.country.text)) >= 2
  /\ Len(Split(vres.fields.text)) >= 2

\* C6: validate_fields_param raises "Fields cannot be empty" for every input
\* without a non-blank token, "" included, and returns no value for it.
C6_EmptyFieldsRejected ==
  (vres.fields # NotCalled /\ TrimmedTokens(vin) = <<>>) =>
    (vres.fields.kind = "raise" /\ vres.fields.msg = "Fields cannot be empty")

\* C7: when every non-blank token of the input, trimmed, is in the country
\* table, validate_country_param returns one normalized code per token, in
\* input order, duplicates kept.
C7_OneCodePerToken ==
  ( /\ vres.country # NotCalled
    /\ TrimmedTokens(vin) # <<>>
    /\ \A i \in 1..Len(TrimmedTokens(vin)) :
         get_country_code(TrimmedTokens(vin)[i]) # None ) =>
    /\ vres.country.kind = "return"
    /\ vres.country.value.type = "str"
    /\ Split(vres.country.value.s) =
         [i \in 1..Len(TrimmedTokens(vin)) |->
            get_country_code(TrimmedTokens(vin)[i])[1]]

---------------------------------------------------------------------------
(* Properties of main(), under Spec *)

\* C1: a run whose arguments parse, whose action is registered and whose
\* traversals all complete hands the action one aggregate: the records of
\* every term's traversal, in term order, each tagged with its trimmed term.
C1_AggregateInTermOrder ==
  (MainDone /\ SelectorGiven /\ argv.action \in get_operators /\ env.failAt = 0) =>
    /\ Len(out.calls) = 1
    /\ out.calls[1].records = ExpectedAggregate(Len(SubmittedTerms))

C3_MissingSelectorReported ==
  (MainDone /\ argv.search_terms = None /\ argv.search_page_ids = None) =>
    /\ out.printed = <<MissingSelectorMsg>>
    /\ out.status = 1
    /\ out.traversals = <<>>
    /\ out.calls = <<>>

\* C4: with --search-terms absent and --search-page-ids given, main()
\* constructs exactly one traversal, whose search term is "".
C4_OneTraversalOfEmptyTerm ==
  (MainDone /\ argv.search_terms = None /\ TruthyStr(argv.search_page_ids)) =>
    /\ Len(out.traversals) = 1
    /\ out.traversals[1].search_term = <<>>

\* C8: with an action name that is not in the registry, the run prints the
\* unknown-action message, exits with status 1, invokes no action handler and
\* drives no traversal.
C8_UnknownActionReported ==
  (MainDone /\ SelectorGiven /\ argv.action \notin get_operators) =>
    /\ out.printed = <<UnknownActionMsg>>
    /\ out.status = 1
    /\ out.calls = <<>>
    /\ out.traversals = <<>>

\* C9: a run with a selector constructs a traversal per search term, and each
\* carries every override given on the command line with an allowed value:
\* page ids, status, date, a positive batch size, a retry limit of 0 or more.
C9_OverridesForwarded ==
  (MainDone /\ SelectorGiven /\ env.failAt = 0) =>
    /\ Len(out.traversals) = Len(SubmittedTerms)
    /\ \A i \in 1..Len(out.traversals) :
         LET t == out.traversals[i]
         IN /\ TruthyStr(argv.search_page_ids) => t.search_page_ids = argv.search_page_ids
            /\ argv.ad_active_status # None => t.ad_active_status = argv.ad_active_status
            /\ argv.after_date # None => t.after_date = argv.after_date
            /\ (argv.batch_size # None /\ argv.batch_size[1] > 0) =>
                 t.page_limit = argv.batch_size
            /\ (argv.retry_limit # None /\ argv.retry_limit[1] >= 0) =>
                 t.retry_limit = argv.retry_limit

\* C10: every batch size main() has placed on a traversal is positive and
\* every retry limit it has placed is 0 or more.  No run reaches line 120, so
\* no state holds a traversal and C10_SomeOverridePlaced is never reached.
C10_ForwardedOverridesAcceptable ==
  \A i \in 1..Len(out.traversals) :
    /\ out.traversals[i].page_limit # None => out.traversals[i].page_limit[1] > 0
    /\ out.traversals[i].retry_limit # None => out.traversals[i].retry_limit[1] >= 0

\* a traversal on which main() has placed a batch size or a retry limit
C10_SomeOverridePlaced ==
  \E i \in 1..Len(out.traversals) :
    out.traversals[i].page_limit # None \/ out.traversals[i].retry_limit # None

====
